---- MODULE Spec2Model ----
(***************************************************************************)
(* A model of res-adapter's command-line driver: main() of main.py and      *)
(* load_resadapter() of resadapter/model_loader.py.                         *)
(*                                                                         *)
(* One behaviour is one run of main() over one configuration file.  The     *)
(* configuration is chosen in Init and never changes.  The external         *)
(* pipeline object is modelled by what the driver does to it: the calls it  *)
(* receives, the adapters loaded into it and activated on it, and the       *)
(* files the driver writes are recorded, in order, in trace.                *)
(*                                                                         *)
(* Optional values (config.get(key, None), a generator that may be None, a  *)
(* keyword argument that may be absent) are sequences of length 0 or 1:     *)
(* <<>> is None / absent, <<v>> is the value v.                             *)
(***************************************************************************)
EXTENDS Integers, Sequences, FiniteSets, TLC

VARIABLES
    config,     \* the loaded configuration (main.py:47), immutable
    fs,         \* the adapter directory as the run has observed it
    pc,         \* the section of main() the run is in
    error,      \* the exception that ended the run, "none" while running
    sub_task,   \* main()'s local variable sub_task, "UNBOUND" until assigned
    prepared,   \* the lists built by section 3 of main()
    generator,  \* main()'s local variable generator
    enable_compare, \* main()'s local variable enable_compare
    i,          \* the index of the loop the run is in (1-based)
    pipeline,   \* the pipeline object: loaded and active adapters, unet weights
    log,        \* the messages load_resadapter has printed
    files,      \* the files of the output directory
    trace       \* the calls on the pipeline and the file saves, in order

vars == <<config, fs, pc, error, sub_task, prepared, generator, enable_compare,
          i, pipeline, log, files, trace>>

-----------------------------------------------------------------------------
(* Bounds of the model *)

MaxPrompts == 2
MaxImagesPerPrompt == 2
MaxList == 2

-----------------------------------------------------------------------------
(* Program constants *)

DefaultSize == 512
PromptPrefixLen == 100

None == <<>>
Some(v) == <<v>>

\* config.get(key, default)
Get(opt, default) == IF opt = None THEN default ELSE opt[1]

Min(a, b) == IF a <= b THEN a ELSE b

Take(s, n) == SubSeq(s, 1, Min(n, Len(s)))

RECURSIVE SeqsUpTo(_, _)
SeqsUpTo(S, n) ==
    IF n = 0 THEN {<<>>}
    ELSE LET shorter == SeqsUpTo(S, n - 1)
         IN  shorter \cup {Append(s, x) : s \in {t \in shorter : Len(t) = n - 1}, x \in S}

-----------------------------------------------------------------------------
(* The inputs: image files on disk, prompts, geometry settings *)

\* An image file: its stem and its native size.
ImageFile(name, w, h) == [name |-> name, w |-> w, h |-> h]

FileA == ImageFile("a", 800, 600)
FileB == ImageFile("b", 801, 603)
ImageFiles == {FileA, FileB}

\* The list of the first n files of a directory listing a, b, a, b, ...
FileList(n) == [k \in 1..n |-> IF k % 2 = 1 THEN FileA ELSE FileB]
PrefixLists == {FileList(n) : n \in 0..MaxList}
AnyLists == SeqsUpTo(ImageFiles, MaxList)

\* Prompts are sequences of characters.  LongX and LongY are 101 characters
\* long and differ only in the last one.
Short == <<"c", "a", "t">>
LongX == [k \in 1..(PromptPrefixLen + 1) |-> IF k <= PromptPrefixLen THEN "a" ELSE "x"]
LongY == [k \in 1..(PromptPrefixLen + 1) |-> IF k <= PromptPrefixLen THEN "a" ELSE "y"]
PromptTexts == {Short, LongX, LongY}

\* The first n prompts of a prompt file cat, aaa...x, aaa...y, cat, ...
PromptList(n) ==
    [k \in 1..n |-> IF k % 3 = 1 THEN Short ELSE IF k % 3 = 2 THEN LongX ELSE LongY]
PrefixPrompts == {PromptList(n) : n \in 0..MaxPrompts}
AnyPrompts == SeqsUpTo(PromptTexts, MaxPrompts)

\* A scale ratio num/den; every den is a power of two, so that the float
\* product size * ratio of the code is exact.
Ratio(num, den) == [num |-> num, den |-> den]
ScaleRatios == {None, Some(Ratio(0, 1)), Some(Ratio(1, 2)), Some(Ratio(3, 4))}
Widths == {None, Some(640)}
Heights == {None, Some(384)}

Geometries(ratios, widths, heights) ==
    {[scale_ratio |-> r, width |-> w, height |-> h] :
        r \in ratios, w \in widths, h \in heights}

MainGeometries == Geometries({None, Some(Ratio(1, 2))}, {None}, {None})
AllGeometries == Geometries(ScaleRatios, Widths, Heights)

\* The image lists main() reads for a task and sub-task; a list the task
\* never reads is left out of the configuration file.  L are the lists whose
\* native sizes the geometry is resolved from, M the lists paired with them.
ImageLists(task, sub, L, M) ==
    LET Rec(ip, src, mask, cond) ==
            [ip_adapter_images |-> ip, source_images |-> src,
             mask_images |-> mask, condition_images |-> cond]
    IN  CASE task = "controlnet" -> {Rec(<<>>, s, <<>>, <<>>) : s \in L}
          [] task = "t2i_adapter" -> {Rec(<<>>, <<>>, <<>>, c) : c \in L}
          [] task = "ip_adapter" /\ sub = "image_variation" ->
                {Rec(r, <<>>, <<>>, <<>>) : r \in L}
          [] task = "ip_adapter" /\ sub = "image_to_image" ->
                {Rec(r, s, <<>>, <<>>) : r \in M, s \in L}
          [] task = "ip_adapter" /\ sub = "inpaint" ->
                {Rec(r, s, m, <<>>) : r \in M, s \in L, m \in M}
          [] OTHER -> {Rec(<<>>, <<>>, <<>>, <<>>)}

Tasks == {"t2i", "t2i_accelerate", "controlnet", "ip_adapter", "t2i_adapter", "bogus"}

SubTasks(task) ==
    CASE task = "controlnet" -> {"text_to_image", "image_to_image"}
      [] task = "ip_adapter" -> {"image_variation", "image_to_image", "inpaint", "None"}
      [] OTHER -> {"None"}

\* The adapter settings: enable_compare and split_images are read only when
\* a res_adapter_model path is configured (main.py:176-179, 261-268).
NoAdapter == [res_adapter_model |-> "", enable_compare |-> FALSE, split_images |-> FALSE]
WithAdapter(compare, split) ==
    [res_adapter_model |-> "models/res_adapter", enable_compare |-> compare,
     split_images |-> split]
AdapterSettings ==
    {NoAdapter, WithAdapter(FALSE, FALSE), WithAdapter(TRUE, FALSE), WithAdapter(TRUE, TRUE)}

Seeds == {None, Some(0), Some(42)}

Configs(T, L, M, G, P, N, S, A) ==
    UNION {UNION {
        {[task |-> t, sub_task |-> st,
          prompts |-> p, num_images_per_prompt |-> n, seed |-> sd,
          res_adapter_model |-> a.res_adapter_model,
          enable_compare |-> a.enable_compare,
          split_images |-> a.split_images,
          scale_ratio |-> g.scale_ratio, width |-> g.width, height |-> g.height,
          ip_adapter_images |-> l.ip_adapter_images,
          source_images |-> l.source_images,
          mask_images |-> l.mask_images,
          condition_images |-> l.condition_images] :
            l \in ImageLists(t, st, L, M),
            g \in (IF t \in {"controlnet", "ip_adapter"} /\ st # "None" THEN G
                   ELSE Geometries({None}, {None}, {None})),
            p \in P, n \in N, sd \in S, a \in A}
        : st \in SubTasks(t)} : t \in T}

-----------------------------------------------------------------------------
(* Section 3 of main(): geometry and image preparation (main.py:81-167) *)

\* Python's truth value of config.get("scale_ratio", None): None and 0 are false.
ScaleRatioSet(cfg) == cfg.scale_ratio # None /\ cfg.scale_ratio[1].num # 0

\* int(size * ratio) for size >= 0 and ratio >= 0: truncation.
Truncated(size, r) == (size * r.num) \div r.den

\* A mutant of Geometry: rounds half up where the code truncates.
GeometryRounded(cfg, file) ==
    IF ScaleRatioSet(cfg)
    THEN LET r == cfg.scale_ratio[1]
         IN  <<(2 * file.w * r.num + r.den) \div (2 * r.den),
               (2 * file.h * r.num + r.den) \div (2 * r.den)>>
    ELSE <<Get(cfg.width, DefaultSize), Get(cfg.height, DefaultSize)>>

\* width, height for the image opened from file (main.py:86-89 and its copies).
Geometry(cfg, file) ==
    IF ScaleRatioSet(cfg)
    THEN <<Truncated(file.w, cfg.scale_ratio[1]), Truncated(file.h, cfg.scale_ratio[1])>>
    ELSE <<Get(cfg.width, DefaultSize), Get(cfg.height, DefaultSize)>>

\* Image.open(path).resize(size), of the k-th path of config list `list`;
\* mode is "RGB" as opened, "L" after convert("L"), "edges" for a Canny map.
Resized(list, k, file, size, mode) ==
    [list |-> list, index |-> k, name |-> file.name,
     w |-> size[1], h |-> size[2], mode |-> mode]

\* A mutant of ZipLen: stops one entry early.
ZipLenShort(lists) ==
    LET m == CHOOSE n \in {Len(lists[x]) : x \in DOMAIN lists} :
                 \A x \in DOMAIN lists : n <= Len(lists[x])
    IN  IF m = 0 THEN 0 ELSE m - 1

\* The number of tuples zip(...) yields: the length of the shortest list.
ZipLen(lists) ==
    CHOOSE n \in {Len(lists[x]) : x \in DOMAIN lists} :
        \A x \in DOMAIN lists : n <= Len(lists[x])

NoPrepared ==
    [condition_images |-> <<>>, source_images |-> <<>>,
     mask_images |-> <<>>, ip_adapter_images |-> <<>>]

\* main.py:81-98
PrepareControlnet(cfg) ==
    LET src == [k \in 1..Len(cfg.source_images) |->
                  Resized("source_images", k, cfg.source_images[k],
                          Geometry(cfg, cfg.source_images[k]), "RGB")]
    IN  [NoPrepared EXCEPT
            !.source_images = src,
            !.condition_images = [k \in 1..Len(src) |-> [src[k] EXCEPT !.mode = "edges"]]]

\* main.py:100-109
PrepareT2IAdapter(cfg) ==
    [NoPrepared EXCEPT
        !.condition_images = [k \in 1..Len(cfg.condition_images) |->
            Resized("condition_images", k, cfg.condition_images[k],
                    Geometry(cfg, cfg.condition_images[k]), "L")]]

\* main.py:114-124
PrepareImageVariation(cfg) ==
    [NoPrepared EXCEPT
        !.ip_adapter_images = [k \in 1..Len(cfg.ip_adapter_images) |->
            Resized("ip_adapter_images", k, cfg.ip_adapter_images[k],
                    Geometry(cfg, cfg.ip_adapter_images[k]), "RGB")]]

\* main.py:127-141
PrepareImageToImage(cfg) ==
    LET n == ZipLen(<<cfg.ip_adapter_images, cfg.source_images>>)
        size(k) == Geometry(cfg, cfg.source_images[k])
    IN  [NoPrepared EXCEPT
            !.source_images = [k \in 1..n |->
                Resized("source_images", k, cfg.source_images[k], size(k), "RGB")],
            !.ip_adapter_images = [k \in 1..n |->
                Resized("ip_adapter_images", k, cfg.ip_adapter_images[k], size(k), "RGB")]]

\* main.py:144-164
PrepareInpaint(cfg) ==
    LET n == ZipLen(<<cfg.ip_adapter_images, cfg.source_images, cfg.mask_images>>)
        size(k) == Geometry(cfg, cfg.source_images[k])
    IN  [NoPrepared EXCEPT
            !.source_images = [k \in 1..n |->
                Resized("source_images", k, cfg.source_images[k], size(k), "RGB")],
            !.mask_images = [k \in 1..n |->
                Resized("mask_images", k, cfg.mask_images[k], size(k), "RGB")],
            !.ip_adapter_images = [k \in 1..n |->
                Resized("ip_adapter_images", k, cfg.ip_adapter_images[k], size(k), "RGB")]]

\* The three `if task == ...` blocks of section 3, in order.
PreparedInputs(cfg) ==
    IF cfg.task = "controlnet" THEN PrepareControlnet(cfg)
    ELSE IF cfg.task = "t2i_adapter" THEN PrepareT2IAdapter(cfg)
    ELSE IF cfg.task = "ip_adapter" THEN
        IF cfg.sub_task = "image_variation" THEN PrepareImageVariation(cfg)
        ELSE IF cfg.sub_task = "image_to_image" THEN PrepareImageToImage(cfg)
        ELSE IF cfg.sub_task = "inpaint" THEN PrepareInpaint(cfg)
        ELSE NoPrepared
    ELSE NoPrepared

\* A file of the output directory.  stem is a sequence of characters.
OutputFile(kind, stem, j, label) ==
    [kind |-> kind, stem |-> stem, j |-> j, label |-> label]

\* condition_<stem>.jpg, written for every source image of controlnet (main.py:97).
ConditionFiles(cfg) ==
    IF cfg.task = "controlnet"
    THEN {OutputFile("condition", <<cfg.source_images[k].name>>, 0, "") :
            k \in 1..Len(cfg.source_images)}
    ELSE {}

-----------------------------------------------------------------------------
(* Section 4 of main(): keyword arguments, pipeline calls, saves *)

NoKwargs ==
    [image |-> None, control_image |-> None, mask_image |-> None,
     ip_adapter_image |-> None, strength |-> None]

\* A decimal literal of the code: 0.6 is Decimal(6, 10).
Decimal(num, den) == [num |-> num, den |-> den]

\* The outcome of a block of code: the value it builds, or the exception it raises.
Ok(v) == [err |-> "none", val |-> v]
Raise(e) == [err |-> e, val |-> NoKwargs]

\* list[i] of Python with the model's 1-based k: an IndexError past the end.
InRange(list, k) == k <= Len(list)

\* A mutant of BaselineKwargs: the inpaint branch, copied from the
\* image_to_image branch, keeps its strength.
BaselineKwargsWrongStrength(task, st, prep, k) ==
    IF task = "t2i" \/ task = "t2i_accelerate" THEN Ok(NoKwargs)
    ELSE IF task # "ip_adapter" \/ st \notin {"image_variation", "image_to_image", "inpaint"}
    THEN Raise("UnboundLocalError")
    ELSE IF ~InRange(prep.ip_adapter_images, k) THEN Raise("IndexError")
    ELSE IF st = "image_variation"
    THEN Ok([NoKwargs EXCEPT !.ip_adapter_image = Some(prep.ip_adapter_images[k])])
    ELSE IF st = "image_to_image"
    THEN Ok([NoKwargs EXCEPT
                !.image = Some(prep.source_images[k]),
                !.ip_adapter_image = Some(prep.ip_adapter_images[k]),
                !.strength = Some(Decimal(6, 10))])
    ELSE Ok([NoKwargs EXCEPT
                !.image = Some(prep.source_images[k]),
                !.mask_image = Some(prep.mask_images[k]),
                !.ip_adapter_image = Some(prep.ip_adapter_images[k]),
                !.strength = Some(Decimal(6, 10))])

\* kwargs of the baseline call for prompt k (main.py:185-200).  st is the
\* local variable sub_task: reading it while unbound raises UnboundLocalError
\* (a NameError); kwargs left unassigned raises the same at the call.
BaselineKwargs(task, st, prep, k) ==
    IF task = "t2i" \/ task = "t2i_accelerate" THEN Ok(NoKwargs)
    ELSE IF task = "controlnet" THEN
        IF st = "UNBOUND" THEN Raise("UnboundLocalError")
        ELSE IF st = "text_to_image" THEN
            IF InRange(prep.condition_images, k)
            THEN Ok([NoKwargs EXCEPT !.image = Some(prep.condition_images[k])])
            ELSE Raise("IndexError")
        ELSE IF st = "image_to_image" THEN
            IF InRange(prep.condition_images, k)
            THEN Ok([NoKwargs EXCEPT
                        !.control_image = Some(prep.condition_images[k]),
                        !.image = Some(prep.source_images[k])])
            ELSE Raise("IndexError")
        ELSE Raise("UnboundLocalError")
    ELSE IF task = "t2i_adapter" THEN
        IF InRange(prep.condition_images, k)
        THEN Ok([NoKwargs EXCEPT !.image = Some(prep.condition_images[k])])
        ELSE Raise("IndexError")
    ELSE IF task = "ip_adapter" THEN
        IF st = "image_variation" THEN
            IF InRange(prep.ip_adapter_images, k)
            THEN Ok([NoKwargs EXCEPT !.ip_adapter_image = Some(prep.ip_adapter_images[k])])
            ELSE Raise("IndexError")
        ELSE IF st = "image_to_image" THEN
            IF InRange(prep.source_images, k)
            THEN Ok([NoKwargs EXCEPT
                        !.image = Some(prep.source_images[k]),
                        !.ip_adapter_image = Some(prep.ip_adapter_images[k]),
                        !.strength = Some(Decimal(6, 10))])
            ELSE Raise("IndexError")
        ELSE IF st = "inpaint" THEN
            IF InRange(prep.source_images, k)
            THEN Ok([NoKwargs EXCEPT
                        !.image = Some(prep.source_images[k]),
                        !.mask_image = Some(prep.mask_images[k]),
                        !.ip_adapter_image = Some(prep.ip_adapter_images[k]),
                        !.strength = Some(Decimal(5, 10))])
            ELSE Raise("IndexError")
        ELSE Raise("UnboundLocalError")
    ELSE Raise("UnboundLocalError")

\* kwargs of the adapted call for prompt k (main.py:228-243), the second copy
\* of the same dispatch.
AdaptedKwargs(task, st, prep, k) ==
    IF task = "t2i" \/ task = "t2i_accelerate" THEN Ok(NoKwargs)
    ELSE IF task = "controlnet" THEN
        IF st = "UNBOUND" THEN Raise("UnboundLocalError")
        ELSE IF st = "text_to_image" THEN
            IF InRange(prep.condition_images, k)
            THEN Ok([NoKwargs EXCEPT !.image = Some(prep.condition_images[k])])
            ELSE Raise("IndexError")
        ELSE IF st = "image_to_image" THEN
            IF InRange(prep.condition_images, k)
            THEN Ok([NoKwargs EXCEPT
                        !.control_image = Some(prep.condition_images[k]),
                        !.image = Some(prep.source_images[k])])
            ELSE Raise("IndexError")
        ELSE Raise("UnboundLocalError")
    ELSE IF task = "t2i_adapter" THEN
        IF InRange(prep.condition_images, k)
        THEN Ok([NoKwargs EXCEPT !.image = Some(prep.condition_images[k])])
        ELSE Raise("IndexError")
    ELSE IF task = "ip_adapter" THEN
        IF st = "image_variation" THEN
            IF InRange(prep.ip_adapter_images, k)
            THEN Ok([NoKwargs EXCEPT !.ip_adapter_image = Some(prep.ip_adapter_images[k])])
            ELSE Raise("IndexError")
        ELSE IF st = "image_to_image" THEN
            IF InRange(prep.source_images, k)
            THEN Ok([NoKwargs EXCEPT
                        !.image = Some(prep.source_images[k]),
                        !.ip_adapter_image = Some(prep.ip_adapter_images[k]),
                        !.strength = Some(Decimal(6, 10))])
            ELSE Raise("IndexError")
        ELSE IF st = "inpaint" THEN
            IF InRange(prep.source_images, k)
            THEN Ok([NoKwargs EXCEPT
                        !.image = Some(prep.source_images[k]),
                        !.mask_image = Some(prep.mask_images[k]),
                        !.ip_adapter_image = Some(prep.ip_adapter_images[k]),
                        !.strength = Some(Decimal(5, 10))])
            ELSE Raise("IndexError")
        ELSE Raise("UnboundLocalError")
    ELSE Raise("UnboundLocalError")

\* An entry of trace.  kind is "baseline_call", "adapted_call", "save",
\* "load_lora" or "set_adapters"; i is the prompt index of a call or a save;
\* adapters are the names a load or an activation is given; loaded are the
\* adapters registered in the pipeline when the entry is made.
Event(kind, k, kwargs, gen, file, adapters, loaded) ==
    [kind |-> kind, i |-> k, kwargs |-> kwargs, generator |-> gen,
     file |-> file, adapters |-> adapters, loaded |-> loaded]

\* pipeline(prompt=..., generator=generator, **kwargs) (main.py:202-213, 245-256)
CallEvent(kind, k, kwargs, gen, p) ==
    Event(kind, k, kwargs, gen, None, p.active, p.adapters)

Texts == <<"ResAdapter", "Baseline">>

\* The files the save block writes for prompt k, in order (main.py:259-282).
\* The optional text overlay changes pixels only and is left out.
SavedFiles(cfg, compare, k) ==
    LET stem == Take(cfg.prompts[k], PromptPrefixLen)
        n == cfg.num_images_per_prompt
    IN  IF compare /\ cfg.split_images
        THEN [e \in 1..(2 * n) |->
                OutputFile("generated", stem, (e - 1) \div 2, Texts[((e - 1) % 2) + 1])]
        ELSE [e \in 1..n |-> OutputFile("generated", stem, e - 1, "")]

\* A mutant of IterationEvents: the images are saved before they are generated.
IterationEventsSaveFirst(call, saves) == saves \o <<call>>

\* What one iteration of the adapted loop does, in order.
IterationEvents(call, saves) == <<call>> \o saves

-----------------------------------------------------------------------------
(* Loading and activating adapters (main.py:216-223, model_loader.py:20-39) *)

NoPipeline == [adapters |-> {}, active |-> {}, unet |-> "base", lora_loads |-> 0]

\* The adapters the pipeline loaders of pipeline_loader.py register: the
\* LCM-LoRA loader registers the adapter main.py:223 activates by name.
LoaderAdapters(task) == IF task = "t2i_accelerate" THEN {"lcm_lora"} ELSE {}

\* The dispatch over config.task (main.py:58-68).
SupportedTask(task) ==
    task = "t2i" \/ task = "t2i_accelerate" \/ task = "controlnet" \/ task = "ip_adapter"

Result(err, p, lg, events) == [err |-> err, pipeline |-> p, log |-> lg, events |-> events]

NormLoaded == "Load normalization safetensors"
NormSkipped == "There is no normalization safetensors"

\* A mutant of NormalizationStep: no try/except, the failure propagates.
NormalizationStepUnguarded(p, lg, norm) ==
    IF norm = "present"
    THEN Result("none", [p EXCEPT !.unet = "patched"], lg \cup {NormLoaded}, <<>>)
    ELSE Result("NormLoadError", p, lg, <<>>)

\* The try/except of load_resadapter (model_loader.py:26-34).  norm is the
\* state of the normalization weights file: "present", "missing" (safe_open
\* raises), or "mismatched" (load_state_dict raises after copying the
\* tensors that fit).  The bare except catches all of it.
NormalizationStep(p, lg, norm) ==
    IF norm = "present"
    THEN Result("none", [p EXCEPT !.unet = "patched"], lg \cup {NormLoaded}, <<>>)
    ELSE IF norm = "mismatched"
    THEN Result("none", [p EXCEPT !.unet = "partial"], lg \cup {NormSkipped}, <<>>)
    ELSE Result("none", p, lg \cup {NormSkipped}, <<>>)

\* pipeline.load_lora_weights(..., adapter_name="res_adapter") (model_loader.py:37)
LoraStep(p, lg, lora) ==
    LET ev == Event("load_lora", 0, NoKwargs, None, None, {"res_adapter"}, p.adapters)
        q == [p EXCEPT !.lora_loads = @ + 1]
    IN  IF lora = "present"
        THEN Result("none", [q EXCEPT !.adapters = @ \cup {"res_adapter"}], lg, <<ev>>)
        ELSE Result("LoraLoadError", q, lg, <<ev>>)

\* load_resadapter(pipeline, config) (model_loader.py:20-39)
LoadResadapter(p, lg, norm, lora) ==
    LET n == NormalizationStep(p, lg, norm)
    IN  IF n.err # "none" THEN n ELSE LoraStep(n.pipeline, n.log, lora)

\* pipeline.set_adapters(names): the library refuses a name that was never loaded.
SetAdapters(r, names) ==
    LET ev == Event("set_adapters", 0, NoKwargs, None, None, names, r.pipeline.adapters)
    IN  IF r.err # "none" THEN r
        ELSE IF names \subseteq r.pipeline.adapters
        THEN Result("none", [r.pipeline EXCEPT !.active = names], r.log, Append(r.events, ev))
        ELSE Result("ValueError", r.pipeline, r.log, Append(r.events, ev))

\* main.py:217-220
LoadAndActivate(cfg, p, lg, norm, lora) ==
    IF cfg.res_adapter_model # ""
    THEN SetAdapters(LoadResadapter(p, lg, norm, lora), {"res_adapter"})
    ELSE Result("none", p, lg, <<>>)

\* main.py:222-223
ActivateAccelerate(cfg, r) ==
    IF cfg.task = "t2i_accelerate"
    THEN SetAdapters(r, {"res_adapter", "lcm_lora"})
    ELSE r

-----------------------------------------------------------------------------
(* The generator and the compare flag (main.py:171-179) *)

\* Python's truth value of config.get("seed", None): None and 0 are false.
SeedSet(cfg) == cfg.seed # None /\ cfg.seed[1] # 0

\* torch.Generator(device).manual_seed(config.seed), or None
MakeGenerator(cfg) ==
    IF SeedSet(cfg)
    THEN Some([obj |-> 1, seed |-> cfg.seed[1], seedings |-> 1])
    ELSE None

EnableCompare(cfg) ==
    IF cfg.res_adapter_model = "" THEN FALSE ELSE cfg.enable_compare

-----------------------------------------------------------------------------
(* The run *)

InitWith(configs) ==
    /\ config \in configs
    /\ fs = [norm |-> "unobserved", lora |-> "unobserved"]
    /\ pc = "load_pipeline"
    /\ error = "none"
    /\ sub_task = "UNBOUND"
    /\ prepared = NoPrepared
    /\ generator = None
    /\ enable_compare = FALSE
    /\ i = 1
    /\ pipeline = NoPipeline
    /\ log = {}
    /\ files = {}
    /\ trace = <<>>

\* The configurations of a run: every task over every combination of image
\* list lengths, and the text-to-image tasks over every list of prompt texts.
Init ==
    InitWith(
        Configs(Tasks, PrefixLists, PrefixLists, MainGeometries, PrefixPrompts,
                1..MaxImagesPerPrompt, Seeds, AdapterSettings)
        \cup Configs({"t2i", "t2i_accelerate"}, PrefixLists, PrefixLists, MainGeometries, AnyPrompts,
                     1..MaxImagesPerPrompt, Seeds, AdapterSettings))

\* main.py:58-75
LoadPipeline ==
    /\ pc = "load_pipeline"
    /\ IF SupportedTask(config.task)
       THEN /\ pipeline' = [NoPipeline EXCEPT !.adapters = LoaderAdapters(config.task)]
            /\ pc' = "prepare"
            /\ error' = error
       ELSE /\ pc' = "raised"
            /\ error' = "NotImplementedError"
            /\ pipeline' = pipeline
    /\ UNCHANGED <<config, fs, sub_task, prepared, generator, enable_compare, i,
                   log, files, trace>>

\* main.py:78-167
Prepare ==
    /\ pc = "prepare"
    /\ sub_task' = IF config.task = "ip_adapter" THEN config.sub_task ELSE sub_task
    /\ prepared' = PreparedInputs(config)
    /\ files' = files \cup ConditionFiles(config)
    /\ IF config.task = "ip_adapter"
          /\ config.sub_task \notin {"image_variation", "image_to_image", "inpaint"}
       THEN pc' = "raised" /\ error' = "NotImplementedError"
       ELSE pc' = "seed_generator" /\ error' = error
    /\ UNCHANGED <<config, fs, generator, enable_compare, i, pipeline, log, trace>>

\* main.py:171-181
SeedGenerator ==
    /\ pc = "seed_generator"
    /\ generator' = MakeGenerator(config)
    /\ enable_compare' = EnableCompare(config)
    /\ pc' = IF EnableCompare(config) /\ Len(config.prompts) > 0
             THEN "baseline" ELSE "load_adapters"
    /\ i' = 1
    /\ UNCHANGED <<config, fs, error, sub_task, prepared, pipeline, log, files, trace>>

\* One iteration of the baseline loop (main.py:184-214).
BaselineIteration ==
    /\ pc = "baseline"
    /\ i <= Len(config.prompts)
    /\ LET r == BaselineKwargs(config.task, sub_task, prepared, i)
       IN  IF r.err = "none"
           THEN /\ trace' = Append(trace,
                        CallEvent("baseline_call", i, r.val, generator, pipeline))
                /\ i' = IF i = Len(config.prompts) THEN 1 ELSE i + 1
                /\ pc' = IF i = Len(config.prompts) THEN "load_adapters" ELSE "baseline"
                /\ error' = error
           ELSE /\ pc' = "raised"
                /\ error' = r.err
                /\ UNCHANGED <<trace, i>>
    /\ UNCHANGED <<config, fs, sub_task, prepared, generator, enable_compare,
                   pipeline, log, files>>

NormStates(cfg) ==
    IF cfg.res_adapter_model = "" THEN {"unobserved"}
    ELSE {"present", "missing", "mismatched"}

LoraStates(cfg) ==
    IF cfg.res_adapter_model = "" THEN {"unobserved"} ELSE {"present", "missing"}

\* main.py:216-226
LoadAdapters ==
    /\ pc = "load_adapters"
    /\ \E norm \in NormStates(config), lora \in LoraStates(config) :
        LET r == ActivateAccelerate(config,
                    LoadAndActivate(config, pipeline, log, norm, lora))
        IN  /\ fs' = [norm |-> norm, lora |-> lora]
            /\ pipeline' = r.pipeline
            /\ log' = r.log
            /\ trace' = trace \o r.events
            /\ IF r.err = "none"
               THEN /\ pc' = IF Len(config.prompts) > 0 THEN "adapted" ELSE "done"
                    /\ error' = error
               ELSE /\ pc' = "raised"
                    /\ error' = r.err
    /\ i' = 1
    /\ UNCHANGED <<config, sub_task, prepared, generator, enable_compare, files>>

\* One iteration of the adapted loop (main.py:227-283).
AdaptedIteration ==
    /\ pc = "adapted"
    /\ i <= Len(config.prompts)
    /\ LET r == AdaptedKwargs(config.task, sub_task, prepared, i)
           saved == SavedFiles(config, enable_compare, i)
           saves == [e \in 1..Len(saved) |->
                        Event("save", i, NoKwargs, None, Some(saved[e]), {},
                              pipeline.adapters)]
       IN  IF r.err = "none"
           THEN /\ trace' = trace \o IterationEvents(
                        CallEvent("adapted_call", i, r.val, generator, pipeline), saves)
                /\ files' = files \cup {saved[e] : e \in 1..Len(saved)}
                /\ i' = i + 1
                /\ pc' = IF i = Len(config.prompts) THEN "done" ELSE "adapted"
                /\ error' = error
           ELSE /\ pc' = "raised"
                /\ error' = r.err
                /\ UNCHANGED <<trace, files, i>>
    /\ UNCHANGED <<config, fs, sub_task, prepared, generator, enable_compare,
                   pipeline, log>>

Next ==
    \/ LoadPipeline
    \/ Prepare
    \/ SeedGenerator
    \/ BaselineIteration
    \/ LoadAdapters
    \/ AdaptedIteration

Spec == Init /\ [][Next]_vars

\* The input preparator alone (sections 2 and 3 of main()), over every
\* geometry setting and every list of image files.
InitPrep ==
    InitWith(Configs(Tasks, AnyLists, PrefixLists, AllGeometries, {<<Short>>}, {1}, {None}, {NoAdapter}))

NextPrep ==
    \/ LoadPipeline
    \/ Prepare

SpecPrep == InitPrep /\ [][NextPrep]_vars

-----------------------------------------------------------------------------
(* Vocabulary of the properties *)

NumPrompts == Len(config.prompts)

IsCall(e) == e.kind = "baseline_call" \/ e.kind = "adapted_call"

CallEvents == {trace[a] : a \in {b \in DOMAIN trace : IsCall(trace[b])}}

\* The keyword arguments a call passes beyond the common ones.
Keys(kw) == {f \in DOMAIN kw : kw[f] # None}

\* v is the image prepared from the k-th path of config list `list`.
IsEntry(v, list, k) ==
    /\ v # None
    /\ k \in DOMAIN config[list]
    /\ v[1].list = list
    /\ v[1].index = k
    /\ v[1].name = config[list][k].name

\* The lists of the configuration that preparation zips for the sub-task.
ZippedLists ==
    IF config.sub_task = "inpaint"
    THEN <<config.ip_adapter_images, config.source_images, config.mask_images>>
    ELSE <<config.ip_adapter_images, config.source_images>>

Shortest == CHOOSE n \in {Len(ZippedLists[x]) : x \in DOMAIN ZippedLists} :
                \A x \in DOMAIN ZippedLists : n <= Len(ZippedLists[x])

Longest == CHOOSE n \in {Len(ZippedLists[x]) : x \in DOMAIN ZippedLists} :
                \A x \in DOMAIN ZippedLists : n >= Len(ZippedLists[x])

ZipCase ==
    /\ config.task = "ip_adapter"
    /\ config.sub_task \in {"image_to_image", "inpaint"}

Mismatched == ZipCase /\ Shortest # Longest

-----------------------------------------------------------------------------
(* C1 *)

\* The kwargs-assembly table, rows text-to-image and adapter-guided with a
\* sub-task, for the call event e.
TableRow(e) ==
    LET kw == e.kwargs
    IN  IF config.task \in {"t2i", "t2i_accelerate"} THEN kw = NoKwargs
        ELSE IF config.task = "ip_adapter" /\ config.sub_task = "image_variation"
        THEN /\ Keys(kw) = {"ip_adapter_image"}
             /\ IsEntry(kw.ip_adapter_image, "ip_adapter_images", e.i)
        ELSE IF config.task = "ip_adapter" /\ config.sub_task = "image_to_image"
        THEN /\ Keys(kw) = {"image", "ip_adapter_image", "strength"}
             /\ IsEntry(kw.image, "source_images", e.i)
             /\ IsEntry(kw.ip_adapter_image, "ip_adapter_images", e.i)
             /\ kw.strength = Some(Decimal(6, 10))
        ELSE IF config.task = "ip_adapter" /\ config.sub_task = "inpaint"
        THEN /\ Keys(kw) = {"image", "mask_image", "ip_adapter_image", "strength"}
             /\ IsEntry(kw.image, "source_images", e.i)
             /\ IsEntry(kw.mask_image, "mask_images", e.i)
             /\ IsEntry(kw.ip_adapter_image, "ip_adapter_images", e.i)
             /\ kw.strength = Some(Decimal(5, 10))
        ELSE TRUE

\* C1: for t2i, t2i_accelerate and ip_adapter with a sub-task, every pipeline
\* call made for prompt i, baseline or adapted, passes exactly the extra
\* keyword arguments of its row of the table, and the baseline and the adapted
\* call of one prompt pass the same ones.
C1_KwargsTable ==
    /\ \A e \in CallEvents : TableRow(e)
    /\ \A e \in CallEvents : \A g \in CallEvents :
        (config.task \in {"t2i", "t2i_accelerate", "ip_adapter"} /\ e.i = g.i)
            => e.kwargs = g.kwargs

C1_Witness ==
    /\ config.task = "ip_adapter"
    /\ config.sub_task = "inpaint"
    /\ pc = "done"
    /\ \E e \in CallEvents : \E g \in CallEvents :
        /\ e.kind = "baseline_call" /\ g.kind = "adapted_call"
        /\ e.i = 2 /\ g.i = 2

-----------------------------------------------------------------------------
(* C2 *)

\* C2: for task controlnet with at least one prompt and one source image,
\* the pipeline call of every prompt is reached (assembling its keyword
\* arguments raises no name error) and passes image = condition image for
\* sub_task text_to_image, control_image = condition image and image = source
\* image for sub_task image_to_image.
C2_ControlnetCallsReached ==
    (config.task = "controlnet" /\ NumPrompts >= 1 /\ Len(config.source_images) >= 1)
        => /\ error # "UnboundLocalError"
           /\ \A e \in CallEvents :
                IF config.sub_task = "text_to_image"
                THEN /\ Keys(e.kwargs) = {"image"}
                     /\ IsEntry(e.kwargs.image, "source_images", e.i)
                     /\ e.kwargs.image[1].mode = "edges"
                ELSE /\ Keys(e.kwargs) = {"control_image", "image"}
                     /\ IsEntry(e.kwargs.control_image, "source_images", e.i)
                     /\ e.kwargs.control_image[1].mode = "edges"
                     /\ IsEntry(e.kwargs.image, "source_images", e.i)
                     /\ e.kwargs.image[1].mode = "RGB"

-----------------------------------------------------------------------------
(* C3 *)

\* C3: for task t2i_adapter with at least one prompt and one condition image,
\* the run reaches the pipeline call of every prompt (the task is not
\* rejected) and passes image = the prepared grayscale condition image as the
\* only extra keyword argument.
C3_T2IAdapterCallsReached ==
    (config.task = "t2i_adapter" /\ NumPrompts >= 1 /\ Len(config.condition_images) >= 1)
        => /\ error # "NotImplementedError"
           /\ \A e \in CallEvents :
                /\ Keys(e.kwargs) = {"image"}
                /\ IsEntry(e.kwargs.image, "condition_images", e.i)
                /\ e.kwargs.image[1].mode = "L"

-----------------------------------------------------------------------------
(* C4 *)

IsPromptEvent(e) == IsCall(e) \/ e.kind = "save"

\* C4 as stated: for prompts i < j, the baseline call, the adapted call and
\* the saves of prompt i all come before any pipeline call of prompt j.
C4_StrictlySequential ==
    \A a \in DOMAIN trace : \A b \in DOMAIN trace :
        (IsPromptEvent(trace[a]) /\ IsCall(trace[b]) /\ trace[a].i < trace[b].i)
            => a < b

\* C4 as amended: the run makes two passes.  The baseline calls come in
\* prompt order and all of them come before the adapter is loaded and before
\* any adapted call or save; in the adapted pass, the adapted call and the
\* saves of prompt i come before the adapted call of every prompt j > i; and
\* every save of prompt i comes after the adapted call of prompt i and, when
\* comparison is enabled, after its baseline call.
C4_TwoPasses ==
    /\ \A a \in DOMAIN trace : \A b \in DOMAIN trace :
        /\ (trace[a].kind = "baseline_call" /\ trace[b].kind = "baseline_call"
                /\ trace[a].i < trace[b].i) => a < b
        /\ (trace[a].kind = "baseline_call" /\ trace[b].kind # "baseline_call") => a < b
        /\ (trace[a].kind \in {"adapted_call", "save"} /\ trace[b].kind = "adapted_call"
                /\ trace[a].i < trace[b].i) => a < b
    /\ \A b \in DOMAIN trace :
        trace[b].kind = "save" =>
            /\ \E a \in 1..(b - 1) :
                trace[a].kind = "adapted_call" /\ trace[a].i = trace[b].i
            /\ enable_compare =>
                \E a \in 1..(b - 1) :
                    trace[a].kind = "baseline_call" /\ trace[a].i = trace[b].i

C4_Witness ==
    /\ pc = "done"
    /\ enable_compare
    /\ NumPrompts = 2
    /\ \E b \in DOMAIN trace : trace[b].kind = "save" /\ trace[b].i = 2

-----------------------------------------------------------------------------
(* C5 *)

\* C5: for every configured integer seed, one generator is created, seeded
\* once with that value, and passed to every baseline and adapted call; only
\* when no seed is configured do the calls receive no generator.
C5_SeededGenerator ==
    \A e \in CallEvents :
        IF config.seed # None
        THEN e.generator = Some([obj |-> 1, seed |-> config.seed[1], seedings |-> 1])
        ELSE e.generator = None

-----------------------------------------------------------------------------
(* C6 *)

GeneratedFiles == {f \in files : f.kind = "generated"}

\* C6: after a run that completes over P prompts with n images per prompt,
\* the output directory holds exactly P*n generated files, or 2*P*n when
\* comparison and split are both enabled.
C6_FileCount ==
    pc = "done" =>
        Cardinality(GeneratedFiles) =
            IF enable_compare /\ config.split_images
            THEN 2 * NumPrompts * config.num_images_per_prompt
            ELSE NumPrompts * config.num_images_per_prompt

-----------------------------------------------------------------------------
(* C7 *)

\* The prepared images, each with the image file its geometry is resolved
\* from: its own file, or the source image of its index for the images that
\* preparation pairs with a source image.
PreparedWithNative ==
    LET Own(list) == {<<prepared[list][k], config[list][k]>> : k \in DOMAIN prepared[list]}
        Paired(list) ==
            {<<prepared[list][k], config.source_images[k]>> : k \in DOMAIN prepared[list]}
    IN  IF config.task = "controlnet"
        THEN Own("source_images") \cup Paired("condition_images")
        ELSE IF config.task = "ip_adapter" /\ config.sub_task = "image_variation"
        THEN Own("ip_adapter_images")
        ELSE IF config.task = "ip_adapter"
        THEN Own("source_images") \cup Paired("ip_adapter_images") \cup Paired("mask_images")
        ELSE {}

\* q = round(size * num / den) with Python's round: to the nearest integer,
\* a tie to the even one.
IsRounded(q, size, r) ==
    LET twice == 2 * size * r.num
    IN  /\ (2 * q - 1) * r.den <= twice
        /\ twice <= (2 * q + 1) * r.den
        /\ (twice = (2 * q - 1) * r.den \/ twice = (2 * q + 1) * r.den) => q % 2 = 0

\* q = int(size * num / den): the largest integer not above the product.
IsTruncated(q, size, r) ==
    /\ q * r.den <= size * r.num
    /\ size * r.num < (q + 1) * r.den

ConfiguredSize(img) ==
    /\ img.w = (IF config.width = None THEN DefaultSize ELSE config.width[1])
    /\ img.h = (IF config.height = None THEN DefaultSize ELSE config.height[1])

\* C7 as stated: with a scale ratio configured, every prepared image is
\* round(native * ratio) wide and high; with none, it has the configured width
\* and height, each 512 when absent.  A scale ratio of 0 is read as the code
\* reads it, as none configured, so that only the rounding is in question.
C7_RoundedGeometry ==
    \A pr \in PreparedWithNative :
        IF config.scale_ratio # None /\ config.scale_ratio[1].num # 0
        THEN /\ IsRounded(pr[1].w, pr[2].w, config.scale_ratio[1])
             /\ IsRounded(pr[1].h, pr[2].h, config.scale_ratio[1])
        ELSE ConfiguredSize(pr[1])

\* C7 as amended: with a non-zero scale ratio configured, every prepared image
\* is int(native * ratio) wide and high, the product truncated, not rounded;
\* with no scale ratio, or a scale ratio of 0, it has the configured width and
\* height, each 512 when absent.
C7_TruncatedGeometry ==
    \A pr \in PreparedWithNative :
        IF config.scale_ratio # None /\ config.scale_ratio[1].num # 0
        THEN /\ IsTruncated(pr[1].w, pr[2].w, config.scale_ratio[1])
             /\ IsTruncated(pr[1].h, pr[2].h, config.scale_ratio[1])
        ELSE ConfiguredSize(pr[1])

C7_Witness ==
    /\ pc = "seed_generator"
    /\ config.scale_ratio = Some(Ratio(3, 4))
    /\ \E pr \in PreparedWithNative :
        /\ pr[2] = FileB
        /\ pr[1].w = 600
        /\ pr[1].h = 452

-----------------------------------------------------------------------------
(* C8 *)

LoraLoadEvents == {a \in DOMAIN trace : trace[a].kind = "load_lora"}

\* C8: once load_resadapter has run: a missing normalization weights file
\* raised nothing, left the unet weights as they were and was logged; whatever
\* the normalization step met, the low-rank weights were loaded exactly once,
\* under the name res_adapter; and a failure of that load ended the run.
C8_LoadResadapter ==
    fs.norm # "unobserved" =>
        /\ error # "NormLoadError"
        /\ fs.norm = "missing" => (pipeline.unet = "base" /\ NormSkipped \in log)
        /\ pipeline.lora_loads = 1
        /\ Cardinality(LoraLoadEvents) = 1
        /\ \A a \in LoraLoadEvents : trace[a].adapters = {"res_adapter"}
        /\ fs.lora = "present" => "res_adapter" \in pipeline.adapters
        /\ fs.lora = "missing" => (pc = "raised" /\ error = "LoraLoadError")

C8_Witness ==
    /\ fs.norm = "missing"
    /\ fs.lora = "present"
    /\ pc = "done"
    /\ "res_adapter" \in pipeline.active
    /\ NumPrompts > 0

-----------------------------------------------------------------------------
(* C9 *)

PreparedLengths ==
    {Len(prepared.ip_adapter_images), Len(prepared.source_images)}
    \cup (IF config.sub_task = "inpaint" THEN {Len(prepared.mask_images)} ELSE {})

Prepared == pc \notin {"load_pipeline", "prepare"}

\* C9 as stated: with image lists of different lengths for image_to_image or
\* inpaint, every prepared list has the length of the shortest and the run
\* does not fail because of the mismatch: no index error ends a run whose
\* longest list has an entry for every prompt.
C9_MismatchNeverFails ==
    (Mismatched /\ NumPrompts <= Longest) =>
        /\ Prepared => PreparedLengths = {Shortest}
        /\ error # "IndexError"

\* C9 as amended: with image lists of different lengths for image_to_image or
\* inpaint, preparation reports nothing and every prepared list has the length
\* of the shortest configured list; a run with more prompts than that then
\* never completes: unless it fails earlier for another reason, it ends with
\* an index error at the first prompt past the shortest list; a run with no
\* more prompts than that meets no index error.
C9_TruncateThenIndexError ==
    Mismatched =>
        /\ Prepared => (PreparedLengths = {Shortest} /\ error # "NotImplementedError")
        /\ error = "IndexError" => (NumPrompts > Shortest /\ i = Shortest + 1)
        /\ pc \in {"baseline", "adapted"} => i <= Shortest + 1
        /\ pc = "done" => NumPrompts <= Shortest

C9_Witness ==
    /\ Mismatched
    /\ config.sub_task = "inpaint"
    /\ Shortest = 1
    /\ NumPrompts = 2
    /\ NumPrompts <= Longest
    /\ error = "IndexError"
    /\ i = 2

-----------------------------------------------------------------------------
(* C10 *)

\* C10: every set_adapters names only adapters loaded earlier in the run,
\* for every task and with or without a res_adapter_model path; every baseline
\* call is made before res_adapter is loaded, and every adapted call after it
\* when a path is configured.
C10_ActivatedAdaptersLoaded ==
    \A a \in DOMAIN trace :
        /\ trace[a].kind = "set_adapters" => trace[a].adapters \subseteq trace[a].loaded
        /\ trace[a].kind = "baseline_call" => "res_adapter" \notin trace[a].loaded
        /\ (trace[a].kind = "adapted_call" /\ config.res_adapter_model # "")
                => "res_adapter" \in trace[a].loaded

====
